---- MODULE Spec2Model ----
(***************************************************************************)
(* The minipool-manager mappings of the Rocket Pool subgraph               *)
(* (src/src/mappings/rocketMinipoolManager.ts) as a state machine over the *)
(* entity store.  Every handler is one action; its effect is computed by   *)
(* an operator from the store before the event, the event's fields and     *)
(* what the contract reads return to the store after it.                   *)
(***************************************************************************)
EXTENDS Integers, Sequences, FiniteSets, TLC

VARIABLES
    minipools,   \* the Minipool entities of the store: id -> entity (load = null off the domain)
    nodes,       \* the Node entities of the store: id -> entity
    tracked,     \* address -> how often it was handed to rocketMinipoolDelegate.create
    avgIds,      \* argument of the last direct evaluation of getAverageFeeForActiveMinipools
    avgResult,   \* its result
    running,     \* handler slot -> the handler invocation run step by step in it (its locals)
    round        \* the store when the step-by-step run began

vars == <<minipools, nodes, tracked, avgIds, avgResult, running, round>>

----------------------------------------------------------------------------
(* Bounds of the model *)

MaxFee == 2         \* network fees read are 1..MaxFee
MaxTime == 2        \* block timestamps are 1..MaxTime
MaxStake == 1       \* the stake reader answers one of MaxStake snapshots
MaxFinalised == 2   \* finalisation calls counted per node (totalFinalizedMinipools is unbounded)
MaxLen == 3         \* length of the id lists getAverageFeeForActiveMinipools is applied to
MaxPrior == 2       \* events handled before the step-by-step run begins

MinipoolIds == {"m1", "m2"}
RegisteredNodes == {"n1", "n2"}
NodeIds == RegisteredNodes \cup {"n0"}   \* n0 is never registered

Fees == 1..MaxFee
Times == 1..MaxTime

\* A contract read that reverts (the call is not a try_ call: the handler aborts).
ReadError == -1

\* node.minipoolIds when the field was never set.
Null == <<"null">>

\* The slots a handler invocation can run in, and an empty one.
Slots == {1, 2}
Idle == [pc |-> "idle"]

\* A local variable of a handler that is not assigned yet.
NoEntity == <<"none">>

\* What getNodeFee can answer: a fee, or a revert.
FeeReads == Fees \cup {ReadError}

\* The snapshots the staking contract can answer for a node (three distinct values each).
StakeValues ==
    {[effective |-> 2 * k, minimum |-> k, maximum |-> 3 * k] : k \in 1..MaxStake}

\* The three stake reads of one handler run: all answer, or one of them reverts.
StakeReads ==
    StakeValues \cup
    {[effective |-> ReadError, minimum |-> ReadError, maximum |-> ReadError],
     [effective |-> 2, minimum |-> ReadError, maximum |-> ReadError],
     [effective |-> 2, minimum |-> 1, maximum |-> ReadError]}

----------------------------------------------------------------------------
(* The entity store *)

\* Entity.load(id) !== null
exists(store, id) == id \in DOMAIN store

\* entity.save(): takes effect at once, on its own (no transaction spans two saves).
save(store, entity) == (entity.id :> entity) @@ store

\* rocketPoolEntityFactory.createMinipool: fee and owner as given, both block times 0.
createMinipool(id, node, fee) ==
    [id |-> id, node |-> node, fee |-> fee,
     destroyedBlockTime |-> 0, finalizedBlockTime |-> 0]

\* A Node as the node-registration mapping leaves it: no minipools, all numbers 0.
createNode(id, ids) ==
    [id |-> id, minipoolIds |-> ids,
     totalFinalizedMinipools |-> 0, withdrawableMinipools |-> 0,
     effectiveRPLStaked |-> 0, minimumEffectiveRPL |-> 0, maximumEffectiveRPL |-> 0,
     averageFeeForActiveMinipools |-> 0]

----------------------------------------------------------------------------
(* getAverageFeeForActiveMinipools *)

\* The loop: <<totalMinipoolFeeForActiveMinipools, totalActiveMinipools>> from index on.
RECURSIVE averageLoop(_, _, _, _, _)
averageLoop(store, minipoolIds, index, totalFee, totalActive) ==
    IF index > Len(minipoolIds) THEN <<totalFee, totalActive>>
    ELSE LET minipoolId == minipoolIds[index] IN
         IF \/ ~exists(store, minipoolId)
            \/ store[minipoolId].finalizedBlockTime # 0
            \/ store[minipoolId].destroyedBlockTime # 0
         THEN averageLoop(store, minipoolIds, index + 1, totalFee, totalActive)
         ELSE averageLoop(store, minipoolIds, index + 1,
                          totalFee + store[minipoolId].fee, totalActive + 1)

\* Mutant: the quotient rounded to the nearest integer instead of truncated.
getAverageFeeRounded(store, minipoolIds) ==
    IF minipoolIds = Null \/ Len(minipoolIds) = 0 THEN 0
    ELSE LET totals == averageLoop(store, minipoolIds, 1, 0, 0) IN
         IF totals[2] > 0 /\ totals[1] > 0
         THEN (2 * totals[1] + totals[2]) \div (2 * totals[2]) ELSE 0

getAverageFeeForActiveMinipools(store, minipoolIds) ==
    IF minipoolIds = Null \/ Len(minipoolIds) = 0 THEN 0
    ELSE LET totals == averageLoop(store, minipoolIds, 1, 0, 0) IN
         IF totals[2] > 0 /\ totals[1] > 0 THEN totals[1] \div totals[2] ELSE 0

----------------------------------------------------------------------------
(* Steps of the handlers *)

\* getNewMinipoolFee / the stake reads abort the handler when the call reverts.
readFails(stakeRead) ==
    \/ stakeRead.effective = ReadError
    \/ stakeRead.minimum = ReadError
    \/ stakeRead.maximum = ReadError

\* Mutant: the reads are added to what the node held.
setEffectiveRPLStakedAdded(node, stakeRead) ==
    [node EXCEPT !.effectiveRPLStaked = @ + stakeRead.effective,
                 !.minimumEffectiveRPL = @ + stakeRead.minimum,
                 !.maximumEffectiveRPL = @ + stakeRead.maximum]

setEffectiveRPLStaked(node, stakeRead) ==
    [node EXCEPT !.effectiveRPLStaked = stakeRead.effective,
                 !.minimumEffectiveRPL = stakeRead.minimum,
                 !.maximumEffectiveRPL = stakeRead.maximum]

\* Mutant: the new id is put in front of the list.
addMinipoolIdFirst(nodeMinipools, id) ==
    LET ids == IF nodeMinipools = Null THEN <<id>> ELSE nodeMinipools IN
    IF \E i \in 1..Len(ids) : ids[i] = id THEN ids ELSE <<id>> \o ids

\* "Add this minipool to the collection of the node"
addMinipoolId(nodeMinipools, id) ==
    LET ids == IF nodeMinipools = Null THEN <<id>> ELSE nodeMinipools IN
    IF \E i \in 1..Len(ids) : ids[i] = id THEN ids ELSE Append(ids, id)

\* Mutant: the destroyed block time is written only while it is still 0.
saveDestroyedOnce(store, minipool, timestamp) ==
    IF store[minipool].destroyedBlockTime # 0 THEN store
    ELSE save(store, [store[minipool] EXCEPT !.destroyedBlockTime = timestamp])

\* "Update the minipool so it will contain its destroyed state" and index it.
saveDestroyed(store, minipool, timestamp) ==
    save(store, [store[minipool] EXCEPT !.destroyedBlockTime = timestamp])

\* Mutant: the finalised minipool is saved as a fresh entity, its destroyed block time 0 again.
saveFinalizedReset(store, minipool, timestamp) ==
    save(store, [store[minipool] EXCEPT !.finalizedBlockTime = timestamp,
                                        !.destroyedBlockTime = 0])

\* "Update the finalized block time for this minipool" and index it.
saveFinalized(store, minipool, timestamp) ==
    save(store, [store[minipool] EXCEPT !.finalizedBlockTime = timestamp])

\* Mutant: withdrawableMinipools taken from the count before the increment, unclamped.
incrementFinalisedEarly(node) ==
    [node EXCEPT !.totalFinalizedMinipools = node.totalFinalizedMinipools + 1,
                 !.withdrawableMinipools = node.totalFinalizedMinipools - 1]

\* Mutant: withdrawableMinipools is the new total itself, the 1 is not taken off.
incrementFinalisedUnreduced(node) ==
    LET total == node.totalFinalizedMinipools + 1
    IN [node EXCEPT !.totalFinalizedMinipools = total,
                    !.withdrawableMinipools = IF total < 0 THEN 0 ELSE total]

\* totalFinalizedMinipools + 1, withdrawableMinipools = that - 1, not below 0.
incrementFinalised(node) ==
    LET total == node.totalFinalizedMinipools + 1
        withdrawable == total - 1
    IN [node EXCEPT !.totalFinalizedMinipools = total,
                    !.withdrawableMinipools = IF withdrawable < 0 THEN 0 ELSE withdrawable]

\* Mutant: the average is left as it was.
recomputeAverageSkipped(node, store, minipoolIds) == node

\* if (minipoolIds) node.averageFeeForActiveMinipools = getAverageFeeForActiveMinipools(minipoolIds)
recomputeAverage(node, store, minipoolIds) ==
    IF minipoolIds = Null THEN node
    ELSE [node EXCEPT !.averageFeeForActiveMinipools =
                          getAverageFeeForActiveMinipools(store, minipoolIds)]

\* rocketMinipoolDelegate.create(address): one more data source for the address.
create(templates, address) == [templates EXCEPT ![address] = @ + 1]

\* What a handler run leaves behind, and how it ended:
\* "skipped" (a precondition return), "aborted" (a read reverted), "done".
Result(ms, ns, tr, outcome) ==
    [minipools |-> ms, nodes |-> ns, tracked |-> tr, outcome |-> outcome]

----------------------------------------------------------------------------
(* The handlers *)

\* Mutant: the minipool gets the fallback fee of getNewMinipoolFee (0), not the fee read.
createdBodyDefaultFee(node, minipool, feeRead, stakeRead) ==
    IF feeRead = ReadError THEN Result(minipools, nodes, tracked, "aborted")
    ELSE
      LET entity == createMinipool(minipool, node, 0)
          nodeMinipools == addMinipoolId(nodes[node].minipoolIds, entity.id)
          saved == save(minipools, entity)
      IN IF readFails(stakeRead) THEN Result(saved, nodes, tracked, "aborted")
         ELSE
           LET staked == setEffectiveRPLStaked(
                             [nodes[node] EXCEPT !.minipoolIds = nodeMinipools], stakeRead)
               updated == [staked EXCEPT !.averageFeeForActiveMinipools =
                              getAverageFeeForActiveMinipools(saved, nodeMinipools)]
           IN Result(saved, save(nodes, updated), create(tracked, entity.id), "done")

\* handleMinipoolCreated past its two checks: lines 29-61.
createdBody(node, minipool, feeRead, stakeRead) ==
    IF feeRead = ReadError THEN Result(minipools, nodes, tracked, "aborted")
    ELSE
      LET entity == createMinipool(minipool, node, feeRead)
          nodeMinipools == addMinipoolId(nodes[node].minipoolIds, entity.id)
          saved == save(minipools, entity)
      IN IF readFails(stakeRead) THEN Result(saved, nodes, tracked, "aborted")
         ELSE
           LET staked == setEffectiveRPLStaked(
                             [nodes[node] EXCEPT !.minipoolIds = nodeMinipools], stakeRead)
               updated == [staked EXCEPT !.averageFeeForActiveMinipools =
                              getAverageFeeForActiveMinipools(saved, nodeMinipools)]
           IN Result(saved, save(nodes, updated), create(tracked, entity.id), "done")

\* Mutant: no check for a minipool already indexed at the address.
handleMinipoolCreatedAgain(node, minipool, feeRead, stakeRead) ==
    IF ~exists(nodes, node) THEN Result(minipools, nodes, tracked, "skipped")
    ELSE createdBody(node, minipool, feeRead, stakeRead)

\* Mutant: the minipool is indexed and tracked before the node is looked up.
handleMinipoolCreatedOrphan(node, minipool, feeRead, stakeRead) ==
    IF exists(minipools, minipool) THEN Result(minipools, nodes, tracked, "skipped")
    ELSE IF ~exists(nodes, node)
    THEN IF feeRead = ReadError THEN Result(minipools, nodes, tracked, "aborted")
         ELSE Result(save(minipools, createMinipool(minipool, node, feeRead)), nodes,
                     create(tracked, minipool), "skipped")
    ELSE createdBody(node, minipool, feeRead, stakeRead)

handleMinipoolCreated(node, minipool, feeRead, stakeRead) ==
    IF exists(minipools, minipool) THEN Result(minipools, nodes, tracked, "skipped")
    ELSE IF ~exists(nodes, node) THEN Result(minipools, nodes, tracked, "skipped")
    ELSE createdBody(node, minipool, feeRead, stakeRead)

\* Mutant: the average is recomputed from the store as it was before minipool.save().
destroyedBodyStale(node, minipool, timestamp, stakeRead) ==
    LET minipoolIds == nodes[node].minipoolIds
        saved == saveDestroyed(minipools, minipool, timestamp)
    IN IF readFails(stakeRead) THEN Result(saved, nodes, tracked, "aborted")
       ELSE
         LET staked == setEffectiveRPLStaked(nodes[node], stakeRead)
             updated == recomputeAverage(staked, minipools, minipoolIds)
         IN Result(saved, save(nodes, updated), tracked, "done")

\* handleMinipoolDestroyed past its two checks: lines 80-95.
destroyedBody(node, minipool, timestamp, stakeRead) ==
    LET minipoolIds == nodes[node].minipoolIds
        saved == saveDestroyed(minipools, minipool, timestamp)
    IN IF readFails(stakeRead) THEN Result(saved, nodes, tracked, "aborted")
       ELSE
         LET staked == setEffectiveRPLStaked(nodes[node], stakeRead)
             updated == recomputeAverage(staked, saved, minipoolIds)
         IN Result(saved, save(nodes, updated), tracked, "done")

\* Mutant: the destroyed block time is saved before the node is looked up.
handleMinipoolDestroyedUnchecked(node, minipool, timestamp, stakeRead) ==
    IF ~exists(minipools, minipool) THEN Result(minipools, nodes, tracked, "skipped")
    ELSE IF ~exists(nodes, node)
    THEN Result(saveDestroyed(minipools, minipool, timestamp), nodes, tracked, "skipped")
    ELSE destroyedBody(node, minipool, timestamp, stakeRead)

\* Mutant: the node is loaded through the minipool's owner link, as the finalisation handler does.
handleMinipoolDestroyedByOwner(node, minipool, timestamp, stakeRead) ==
    IF ~exists(minipools, minipool) THEN Result(minipools, nodes, tracked, "skipped")
    ELSE IF ~exists(nodes, node) THEN Result(minipools, nodes, tracked, "skipped")
    ELSE destroyedBody(minipools[minipool].node, minipool, timestamp, stakeRead)

handleMinipoolDestroyed(node, minipool, timestamp, stakeRead) ==
    IF ~exists(minipools, minipool) THEN Result(minipools, nodes, tracked, "skipped")
    ELSE IF ~exists(nodes, node) THEN Result(minipools, nodes, tracked, "skipped")
    ELSE destroyedBody(node, minipool, timestamp, stakeRead)

\* Mutant: a call from a minipool that is already finalised is skipped.
handleIncrementGuarded(from, timestamp, stakeRead) ==
    IF ~exists(minipools, from) THEN Result(minipools, nodes, tracked, "skipped")
    ELSE IF ~exists(nodes, minipools[from].node)
    THEN Result(minipools, nodes, tracked, "skipped")
    ELSE IF minipools[from].finalizedBlockTime # 0
    THEN Result(minipools, nodes, tracked, "skipped")
    ELSE
      LET node == nodes[minipools[from].node]
          minipoolIds == node.minipoolIds
          saved == saveFinalized(minipools, from, timestamp)
          counted == incrementFinalised(node)
      IN IF readFails(stakeRead) THEN Result(saved, nodes, tracked, "aborted")
         ELSE
           LET staked == setEffectiveRPLStaked(counted, stakeRead)
               updated == recomputeAverage(staked, saved, minipoolIds)
           IN Result(saved, save(nodes, updated), tracked, "done")

handleIncrementNodeFinalisedMinipoolCount(from, timestamp, stakeRead) ==
    IF ~exists(minipools, from) THEN Result(minipools, nodes, tracked, "skipped")
    ELSE IF ~exists(nodes, minipools[from].node)
    THEN Result(minipools, nodes, tracked, "skipped")
    ELSE
      LET node == nodes[minipools[from].node]
          minipoolIds == node.minipoolIds
          saved == saveFinalized(minipools, from, timestamp)
          counted == incrementFinalised(node)
      IN IF readFails(stakeRead) THEN Result(saved, nodes, tracked, "aborted")
         ELSE
           LET staked == setEffectiveRPLStaked(counted, stakeRead)
               updated == recomputeAverage(staked, saved, minipoolIds)
           IN Result(saved, save(nodes, updated), tracked, "done")

----------------------------------------------------------------------------
(* The state machine *)

Init ==
    /\ minipools = <<>>
    /\ \E ids \in [RegisteredNodes -> {Null, <<>>}] :
           nodes = [n \in RegisteredNodes |-> createNode(n, ids[n])]
    /\ tracked = [m \in MinipoolIds |-> 0]
    /\ avgIds = <<>>
    /\ avgResult = 0
    /\ running = [slot \in Slots |-> Idle]
    /\ round = Idle

\* The store after a handler run.
Commit(r) ==
    /\ minipools' = r.minipools
    /\ nodes' = r.nodes
    /\ tracked' = r.tracked
    /\ UNCHANGED <<avgIds, avgResult, running, round>>

WithinBounds(r) ==
    \A n \in DOMAIN r.nodes : r.nodes[n].totalFinalizedMinipools <= MaxFinalised

\* A read the handler never gets to is not made: it has no answer to draw.
NotRead(reads, made) == IF made THEN reads ELSE {CHOOSE r \in reads : TRUE}

passesCreatedChecks(node, minipool) == ~exists(minipools, minipool) /\ exists(nodes, node)

passesDestroyedChecks(node, minipool) == exists(minipools, minipool) /\ exists(nodes, node)

passesFinalisedChecks(from) == exists(minipools, from) /\ exists(nodes, minipools[from].node)

MinipoolCreated(feeReads, stakeReads) ==
    \E node \in NodeIds, minipool \in MinipoolIds :
      \E feeRead \in NotRead(feeReads, passesCreatedChecks(node, minipool)) :
        \E stakeRead \in NotRead(stakeReads, passesCreatedChecks(node, minipool)
                                                /\ feeRead # ReadError) :
          \E r \in {handleMinipoolCreated(node, minipool, feeRead, stakeRead)} : Commit(r)

\* owned: the event names the node that owns the minipool, as the minipool manager emits it.
MinipoolDestroyed(owned, stakeReads) ==
    \E node \in NodeIds, minipool \in MinipoolIds :
      /\ owned /\ exists(minipools, minipool) => node = minipools[minipool].node
      /\ \E timestamp \in NotRead(Times, passesDestroyedChecks(node, minipool)),
            stakeRead \in NotRead(stakeReads, passesDestroyedChecks(node, minipool)) :
           \E r \in {handleMinipoolDestroyed(node, minipool, timestamp, stakeRead)} :
               Commit(r)

IncrementNodeFinalisedMinipoolCount(stakeReads) ==
    \E from \in MinipoolIds :
      \E timestamp \in NotRead(Times, passesFinalisedChecks(from)),
         stakeRead \in NotRead(stakeReads, passesFinalisedChecks(from)) :
        \E r \in {handleIncrementNodeFinalisedMinipoolCount(from, timestamp, stakeRead)} :
            WithinBounds(r) /\ Commit(r)

\* Any event the handlers accept, any answer of the contract reads.
Next ==
    \/ MinipoolCreated(FeeReads, StakeReads)
    \/ MinipoolDestroyed(FALSE, StakeReads)
    \/ IncrementNodeFinalisedMinipoolCount(StakeReads)

Spec == Init /\ [][Next]_vars

\* Events as the protocol emits them, and no contract read reverts.
NextSound ==
    \/ MinipoolCreated(Fees, StakeValues)
    \/ MinipoolDestroyed(TRUE, StakeValues)
    \/ IncrementNodeFinalisedMinipoolCount(StakeValues)

SpecSound == Init /\ [][NextSound]_vars

----------------------------------------------------------------------------
(* getAverageFeeForActiveMinipools on its own: any store, any list of ids *)

AverageIds == {"m1", "m2", "m3"}
AverageFees == {0, 10, 11, 20, 30}

\* Every store over AverageIds: each id not indexed, or indexed with a fee and two block times.
InitAverage ==
    /\ \E indexed \in SUBSET AverageIds :
         \E fee \in [indexed -> AverageFees],
            destroyed \in [indexed -> {0, 1}], finalized \in [indexed -> {0, 1}] :
           minipools = [m \in indexed |->
                          [createMinipool(m, "n1", fee[m])
                             EXCEPT !.destroyedBlockTime = destroyed[m],
                                    !.finalizedBlockTime = finalized[m]]]
    /\ nodes = [n \in RegisteredNodes |-> createNode(n, <<>>)]
    /\ tracked = [m \in MinipoolIds |-> 0]
    /\ avgIds = Null      \* no call yet
    /\ avgResult = 0
    /\ running = [slot \in Slots |-> Idle]
    /\ round = Idle

\* All sequences over S of length at most n.
RECURSIVE SeqsUpTo(_, _)
SeqsUpTo(S, n) ==
    IF n = 0 THEN {<<>>}
    ELSE LET shorter == SeqsUpTo(S, n - 1) IN
         shorter \cup {Append(q, x) : q \in shorter, x \in S}

ApplyAverage ==
    /\ avgIds = Null
    /\ \E ids \in SeqsUpTo(AverageIds, MaxLen) :
         /\ avgIds' = ids
         /\ avgResult' = getAverageFeeForActiveMinipools(minipools, ids)
    /\ UNCHANGED <<minipools, nodes, tracked, running, round>>

SpecAverage == InitAverage /\ [][ApplyAverage]_vars

----------------------------------------------------------------------------
(* The handlers step by step: one step per load, save and contract read.   *)
(* An invocation holds the event, the answers its reads will get and the    *)
(* handler's local variables.                                               *)

Store(ms, ns, tr) == [minipools |-> ms, nodes |-> ns, tracked |-> tr]

\* An invocation at the top of its handler. kind: "created", "destroyed", "finalised";
\* eventMinipool is event.params.minipool, or call.from.
Call(kind, eventNode, eventMinipool, timestamp, feeRead, stakeRead) ==
    [kind |-> kind, eventNode |-> eventNode, eventMinipool |-> eventMinipool,
     timestamp |-> timestamp, feeRead |-> feeRead, stakeRead |-> stakeRead,
     pc |-> "loadMinipool",
     minipool |-> NoEntity, node |-> NoEntity, minipoolIds |-> Null,
     index |-> 0, totalFee |-> 0, totalActive |-> 0,
     steps |-> <<>>]

\* The handler is over: it returned at a check, a read reverted, or it ran to its end.
Terminal == {"returned", "aborted", "done"}

Stepped(store, c) == [store |-> store, call |-> c]

At(c, pc) == [c EXCEPT !.pc = pc]

\* The statements whose order the handlers fix, as they are executed.
Did(c, statement) == [c EXCEPT !.steps = Append(@, statement)]

\* Node.load(...) with the null check after it; the handlers that capture
\* node.minipoolIds (lines 80, 114) do it here.
loadNodeStep(store, c, id, nextPc) ==
    IF ~exists(store.nodes, id) THEN Stepped(store, At(c, "returned"))
    ELSE Stepped(store, [c EXCEPT !.node = store.nodes[id],
                                  !.minipoolIds = store.nodes[id].minipoolIds,
                                  !.pc = nextPc])

\* minipool.save()
saveMinipoolStep(store, c, entity) ==
    Stepped([store EXCEPT !.minipools = save(@, entity)],
            Did([c EXCEPT !.minipool = entity, !.pc = "setEffectiveRPLStaked"],
                "minipool.save"))

\* setEffectiveRPLStaked(node): the three stake reads, on the local node.
stakeStep(store, c, node) ==
    IF readFails(c.stakeRead) THEN Stepped(store, At(c, "aborted"))
    ELSE Stepped(store,
                 Did([c EXCEPT !.node = setEffectiveRPLStaked(node, c.stakeRead),
                               !.index = 1, !.totalFee = 0, !.totalActive = 0,
                               !.pc = "getAverageFee"],
                     "setEffectiveRPLStaked"))

\* The average is assigned to the local node (or left, when the list is null).
averaged(c, node) ==
    Did([c EXCEPT !.node = node, !.pc = "saveNode"], "getAverageFeeForActiveMinipools")

\* Mutant: the loop goes over every Minipool of the store, not over the node's list.
averageStepEveryMinipool(store, c) ==
    LET ids == <<"m1", "m2">>
        minipoolId == ids[c.index]
        skipped == \/ ~exists(store.minipools, minipoolId)
                   \/ store.minipools[minipoolId].finalizedBlockTime # 0
                   \/ store.minipools[minipoolId].destroyedBlockTime # 0
        counted == IF skipped THEN c
                   ELSE [c EXCEPT !.totalActive = @ + 1,
                                  !.totalFee = @ + store.minipools[minipoolId].fee]
    IN IF c.index < Len(ids)
       THEN Stepped(store, [counted EXCEPT !.index = @ + 1])
       ELSE Stepped(store,
                averaged(counted,
                    [c.node EXCEPT !.averageFeeForActiveMinipools =
                        IF counted.totalActive > 0 /\ counted.totalFee > 0
                        THEN counted.totalFee \div counted.totalActive ELSE 0]))

\* node.averageFeeForActiveMinipools = getAverageFeeForActiveMinipools(ids): one
\* step for each Minipool.load of the loop; the last one assigns the result.
averageStep(store, c) ==
    LET ids == c.minipoolIds IN
    IF ids = Null THEN Stepped(store, averaged(c, c.node))
    ELSE IF Len(ids) = 0
    THEN Stepped(store, averaged(c, [c.node EXCEPT !.averageFeeForActiveMinipools = 0]))
    ELSE
      LET minipoolId == ids[c.index]
          skipped == \/ ~exists(store.minipools, minipoolId)
                     \/ store.minipools[minipoolId].finalizedBlockTime # 0
                     \/ store.minipools[minipoolId].destroyedBlockTime # 0
          counted == IF skipped THEN c
                     ELSE [c EXCEPT !.totalActive = @ + 1,
                                    !.totalFee = @ + store.minipools[minipoolId].fee]
      IN IF c.index < Len(ids)
         THEN Stepped(store, [counted EXCEPT !.index = @ + 1])
         ELSE Stepped(store,
                  averaged(counted,
                      [c.node EXCEPT !.averageFeeForActiveMinipools =
                          IF counted.totalActive > 0 /\ counted.totalFee > 0
                          THEN counted.totalFee \div counted.totalActive ELSE 0]))

\* node.save()
saveNodeStep(store, c, nextPc) ==
    Stepped([store EXCEPT !.nodes = save(@, c.node)],
            Did(At(c, nextPc), "node.save"))

\* rocketMinipoolDelegate.create(Address.fromString(minipool.id))
createStep(store, c, nextPc) ==
    Stepped([store EXCEPT !.tracked = create(@, c.minipool.id)],
            Did(At(c, nextPc), "rocketMinipoolDelegate.create"))

\* Mutant: the address is handed to rocketMinipoolDelegate.create before the Node is saved.
stepCreatedTrackedEarly(store, c) ==
    CASE c.pc = "loadMinipool" ->
           IF exists(store.minipools, c.eventMinipool)
           THEN Stepped(store, At(c, "returned"))
           ELSE Stepped(store, At(c, "loadNode"))
      [] c.pc = "loadNode" -> loadNodeStep(store, c, c.eventNode, "getNewMinipoolFee")
      [] c.pc = "getNewMinipoolFee" ->
           IF c.feeRead = ReadError THEN Stepped(store, At(c, "aborted"))
           ELSE LET entity == createMinipool(c.eventMinipool, c.eventNode, c.feeRead)
                    nodeMinipools == addMinipoolId(c.node.minipoolIds, entity.id)
                IN Stepped(store, [c EXCEPT !.minipool = entity,
                                            !.minipoolIds = nodeMinipools,
                                            !.node.minipoolIds = nodeMinipools,
                                            !.pc = "saveMinipool"])
      [] c.pc = "saveMinipool" -> saveMinipoolStep(store, c, c.minipool)
      [] c.pc = "setEffectiveRPLStaked" -> stakeStep(store, c, c.node)
      [] c.pc = "getAverageFee" ->
           LET x == averageStep(store, c) IN
           IF x.call.pc = "saveNode" THEN Stepped(x.store, At(x.call, "create")) ELSE x
      [] c.pc = "create" -> createStep(store, c, "saveNode")
      [] c.pc = "saveNode" -> saveNodeStep(store, c, "done")

\* handleMinipoolCreated
stepCreated(store, c) ==
    CASE c.pc = "loadMinipool" ->
           IF exists(store.minipools, c.eventMinipool)
           THEN Stepped(store, At(c, "returned"))
           ELSE Stepped(store, At(c, "loadNode"))
      [] c.pc = "loadNode" -> loadNodeStep(store, c, c.eventNode, "getNewMinipoolFee")
      [] c.pc = "getNewMinipoolFee" ->
           IF c.feeRead = ReadError THEN Stepped(store, At(c, "aborted"))
           ELSE LET entity == createMinipool(c.eventMinipool, c.eventNode, c.feeRead)
                    nodeMinipools == addMinipoolId(c.node.minipoolIds, entity.id)
                IN Stepped(store, [c EXCEPT !.minipool = entity,
                                            !.minipoolIds = nodeMinipools,
                                            !.node.minipoolIds = nodeMinipools,
                                            !.pc = "saveMinipool"])
      [] c.pc = "saveMinipool" -> saveMinipoolStep(store, c, c.minipool)
      [] c.pc = "setEffectiveRPLStaked" -> stakeStep(store, c, c.node)
      [] c.pc = "getAverageFee" -> averageStep(store, c)
      [] c.pc = "saveNode" -> saveNodeStep(store, c, "create")
      [] c.pc = "create" -> createStep(store, c, "done")

\* handleMinipoolDestroyed
stepDestroyed(store, c) ==
    CASE c.pc = "loadMinipool" ->
           IF ~exists(store.minipools, c.eventMinipool)
           THEN Stepped(store, At(c, "returned"))
           ELSE Stepped(store, [c EXCEPT !.minipool = store.minipools[c.eventMinipool],
                                         !.pc = "loadNode"])
      [] c.pc = "loadNode" -> loadNodeStep(store, c, c.eventNode, "saveMinipool")
      [] c.pc = "saveMinipool" ->
           saveMinipoolStep(store, c,
                            [c.minipool EXCEPT !.destroyedBlockTime = c.timestamp])
      [] c.pc = "setEffectiveRPLStaked" -> stakeStep(store, c, c.node)
      [] c.pc = "getAverageFee" -> averageStep(store, c)
      [] c.pc = "saveNode" -> saveNodeStep(store, c, "done")

\* handleIncrementNodeFinalisedMinipoolCount
stepFinalised(store, c) ==
    CASE c.pc = "loadMinipool" ->
           IF ~exists(store.minipools, c.eventMinipool)
           THEN Stepped(store, At(c, "returned"))
           ELSE Stepped(store, [c EXCEPT !.minipool = store.minipools[c.eventMinipool],
                                         !.pc = "loadNode"])
      [] c.pc = "loadNode" -> loadNodeStep(store, c, c.minipool.node, "saveMinipool")
      [] c.pc = "saveMinipool" ->
           saveMinipoolStep(store, c,
                            [c.minipool EXCEPT !.finalizedBlockTime = c.timestamp])
      [] c.pc = "setEffectiveRPLStaked" -> stakeStep(store, c, incrementFinalised(c.node))
      [] c.pc = "getAverageFee" -> averageStep(store, c)
      [] c.pc = "saveNode" -> saveNodeStep(store, c, "done")

\* The next step of invocation c on the store.
step(store, c) ==
    CASE c.kind = "created" -> stepCreated(store, c)
      [] c.kind = "destroyed" -> stepDestroyed(store, c)
      [] c.kind = "finalised" -> stepFinalised(store, c)

\* The handler run from c on without another handler in between.
RECURSIVE runToEnd(_, _)
runToEnd(store, c) ==
    IF c.pc \in Terminal THEN Stepped(store, c)
    ELSE LET x == step(store, c) IN runToEnd(x.store, x.call)

----------------------------------------------------------------------------
(* The step-by-step state machine: from a store that earlier events left,  *)
(* each slot runs one handler invocation, a step at a time.                 *)

\* The invocations a slot can begin: any event, the answers its reads will get
\* (a read that is never made has no answer to draw).
Calls(feeReads, stakeReads) ==
    UNION {
        {Call("created", node, minipool, CHOOSE t \in Times : TRUE, feeRead, stakeRead) :
             node \in NodeIds, minipool \in MinipoolIds,
             stakeRead \in NotRead(stakeReads, feeRead # ReadError)} :
        feeRead \in feeReads}
    \cup {Call("destroyed", node, minipool, timestamp, CHOOSE f \in Fees : TRUE, stakeRead) :
              node \in NodeIds, minipool \in MinipoolIds,
              timestamp \in Times, stakeRead \in stakeReads}
    \cup {Call("finalised", CHOOSE n \in NodeIds : TRUE, from, timestamp,
               CHOOSE f \in Fees : TRUE, stakeRead) :
              from \in MinipoolIds, timestamp \in Times, stakeRead \in stakeReads}

\* The stores of Init.
EmptyStores ==
    {Store(<<>>, [n \in RegisteredNodes |-> createNode(n, ids[n])],
           [m \in MinipoolIds |-> 0]) :
         ids \in [RegisteredNodes -> {Null, <<>>}]}

\* The stores after at most k events handled one at a time, every read answering.
RECURSIVE StoresAfter(_)
StoresAfter(k) ==
    IF k = 0 THEN EmptyStores
    ELSE LET before == StoresAfter(k - 1) IN
         before \cup {runToEnd(store, c).store :
                          store \in before, c \in Calls(Fees, StakeValues)}

InitSteps ==
    /\ \E store \in StoresAfter(MaxPrior) :
         /\ minipools = store.minipools
         /\ nodes = store.nodes
         /\ tracked = store.tracked
         /\ round = store
    /\ running = [slot \in Slots |-> Idle]
    /\ avgIds = <<>>
    /\ avgResult = 0

InFlight(c) == c.pc \notin Terminal \cup {"idle"}

\* The Node and Minipool identities an invocation touches: the node of its event, the
\* minipool of its event and the node that owns that minipool.
touched(store, c) ==
    [nodes |-> (IF c.kind = "finalised" THEN {} ELSE {c.eventNode})
                  \cup (IF exists(store.minipools, c.eventMinipool)
                        THEN {store.minipools[c.eventMinipool].node} ELSE {}),
     minipools |-> {c.eventMinipool}]

\* Handlers touching the same Node or Minipool identity are serialized.
serialized(store, c, other) ==
    InFlight(other) =>
        /\ touched(store, c).nodes \cap touched(store, other).nodes = {}
        /\ touched(store, c).minipools \cap touched(store, other).minipools = {}

\* A slot takes an event; the second slot is used once the first one is.
BeginCall(slots, feeReads, stakeReads) ==
    \E slot \in slots, c \in Calls(feeReads, stakeReads) :
        /\ running[slot] = Idle
        /\ \A other \in Slots \ {slot} :
               /\ slot < other => running[other] = Idle
               /\ slot > other => running[other] # Idle
               /\ serialized(Store(minipools, nodes, tracked), c, running[other])
        /\ running' = [running EXCEPT ![slot] = c]
        /\ UNCHANGED <<minipools, nodes, tracked, avgIds, avgResult, round>>

\* The invocation of a slot takes its next step.
HandlerStep(slots) ==
    \E slot \in slots :
        /\ InFlight(running[slot])
        /\ \E x \in {step(Store(minipools, nodes, tracked), running[slot])} :
             /\ minipools' = x.store.minipools
             /\ nodes' = x.store.nodes
             /\ tracked' = x.store.tracked
             /\ running' = [running EXCEPT ![slot] = x.call]
        /\ UNCHANGED <<avgIds, avgResult, round>>

\* One handler at a time, step by step; reads may revert.
NextSteps == BeginCall({1}, FeeReads, StakeReads) \/ HandlerStep({1})

SpecSteps == InitSteps /\ [][NextSteps]_vars

\* Two handlers whose steps interleave, serialized per Node and Minipool identity.
NextInterleaved == BeginCall(Slots, Fees, StakeValues) \/ HandlerStep(Slots)

SpecInterleaved == InitSteps /\ [][NextInterleaved]_vars

----------------------------------------------------------------------------
(* What the claims speak of *)

IsActive(store, id) ==
    /\ id \in DOMAIN store
    /\ store[id].destroyedBlockTime = 0
    /\ store[id].finalizedBlockTime = 0

RECURSIVE SumOf(_, _)
SumOf(f, S) ==
    IF S = {} THEN 0
    ELSE LET x == CHOOSE y \in S : TRUE IN f[x] + SumOf(f, S \ {x})

\* a is the integer quotient of sum by count, truncated (sum >= 0, count > 0).
IsTruncatedQuotient(a, sum, count) == a * count <= sum /\ sum < (a + 1) * count

\* The minipools of the store that node n owns and that are active.
ActiveOf(n) == {m \in DOMAIN minipools : minipools[m].node = n /\ IsActive(minipools, m)}

FeeSumOf(n) == SumOf([m \in ActiveOf(n) |-> minipools[m].fee], ActiveOf(n))

\* The positions of ids that load to an active minipool of the store.
ActivePositions(store, ids) == {i \in 1..Len(ids) : IsActive(store, ids[i])}

----------------------------------------------------------------------------
----------------------------------------------------------------------------
(* C5: getAverageFeeForActiveMinipools(ids) is floor(S / C), S and C the    *)
(* sum of the fees and the number of the ids (positions of the list) that   *)
(* load to a minipool neither finalized nor destroyed, when C > 0 and       *)
(* S > 0, and 0 otherwise.                                                  *)
C5_AverageFunction ==
    avgIds # Null =>
        LET active == ActivePositions(minipools, avgIds)
            sum == SumOf([i \in active |-> minipools[avgIds[i]].fee], active)
            count == Cardinality(active)
        IN IF count > 0 /\ sum > 0
           THEN IsTruncatedQuotient(avgResult, sum, count)
           ELSE avgResult = 0

\* The list of three active minipools of fees 10, 10 and 11 gave 10.
C5_Witness ==
    /\ avgIds = <<"m1", "m2", "m3">>
    /\ \A m \in AverageIds : IsActive(minipools, m)
    /\ minipools["m1"].fee = 10 /\ minipools["m2"].fee = 10 /\ minipools["m3"].fee = 11
    /\ avgResult = 10

----------------------------------------------------------------------------
(* More of what the claims speak of *)

\* How often id occurs in a node's minipoolIds (never in an unset list).
Occurrences(ids, id) == Cardinality({i \in 1..Len(ids) : ids[i] = id})

\* The handler left the store and the tracked addresses as they were.
LeftUntouched(r) == r.minipools = minipools /\ r.nodes = nodes /\ r.tracked = tracked

\* m was created by a creation event handled to its end.
FullyCreated(m) == tracked[m] >= 1

----------------------------------------------------------------------------
(* C2: a creation event for a minipool that is already indexed changes      *)
(* nothing, whatever was handled since and whatever the reads would answer: *)
(* the Minipool, every Node and the tracked addresses stay as they are, and *)
(* the id of a minipool whose creation was handled to its end is exactly    *)
(* once in its owner's minipoolIds (and in no other node's).                *)
C2_CreationIsIdempotent ==
    \A minipool \in DOMAIN minipools :
        /\ \A node \in NodeIds, feeRead \in FeeReads, stakeRead \in StakeReads :
               LET r == handleMinipoolCreated(node, minipool, feeRead, stakeRead) IN
               LeftUntouched(r) /\ r.outcome = "skipped"
        /\ FullyCreated(minipool) =>
               /\ tracked[minipool] = 1
               /\ \A n \in DOMAIN nodes :
                      Occurrences(nodes[n].minipoolIds, minipool)
                          = IF n = minipools[minipool].node THEN 1 ELSE 0

\* A minipool created with fee 2, destroyed and finalised since, whose creation
\* event comes again while the fee read now answers 1: it is skipped.
C2_Witness ==
    \E m \in DOMAIN minipools :
        /\ FullyCreated(m)
        /\ minipools[m].fee = 2
        /\ minipools[m].destroyedBlockTime # 0
        /\ minipools[m].finalizedBlockTime # 0
        /\ \E s \in StakeValues :
               handleMinipoolCreated(minipools[m].node, m, 1, s).outcome = "skipped"

----------------------------------------------------------------------------
(* C3: between handler runs, an id is in a node's minipoolIds exactly when  *)
(* a Minipool with that id is in the store and its node is that node, and   *)
(* no id is twice in a node's minipoolIds.                                  *)
C3_MembershipMatchesOwnership ==
    \A n \in DOMAIN nodes : \A id \in MinipoolIds :
        /\ Occurrences(nodes[n].minipoolIds, id) >= 1
               <=> (id \in DOMAIN minipools /\ minipools[id].node = n)
        /\ Occurrences(nodes[n].minipoolIds, id) <= 1

----------------------------------------------------------------------------
(* C4: a handler in which a contract read reverts (the fee read, or one of  *)
(* the three stake reads) leaves the store as it was before the event.      *)
C4_FailedReadLeavesStore ==
    /\ \A node \in NodeIds, minipool \in MinipoolIds, feeRead \in FeeReads, stakeRead \in StakeReads :
           LET r == handleMinipoolCreated(node, minipool, feeRead, stakeRead) IN
           r.outcome = "aborted" => r.minipools = minipools /\ r.nodes = nodes
    /\ \A node \in NodeIds, minipool \in MinipoolIds, timestamp \in Times, stakeRead \in StakeReads :
           LET r == handleMinipoolDestroyed(node, minipool, timestamp, stakeRead) IN
           r.outcome = "aborted" => r.minipools = minipools /\ r.nodes = nodes
    /\ \A from \in MinipoolIds, timestamp \in Times, stakeRead \in StakeReads :
           LET r == handleIncrementNodeFinalisedMinipoolCount(from, timestamp, stakeRead) IN
           r.outcome = "aborted" => r.minipools = minipools /\ r.nodes = nodes

----------------------------------------------------------------------------
----------------------------------------------------------------------------
(* C7: withdrawableMinipools of every node is never negative, whatever the  *)
(* number and order of finalisation calls among the other events.           *)
C7_WithdrawableNotNegative ==
    \A n \in DOMAIN nodes : nodes[n].withdrawableMinipools >= 0

\* A node with a single minipool that called twice: 2 finalised, 1 withdrawable.
C7_Witness ==
    \E n \in DOMAIN nodes :
        /\ Len(nodes[n].minipoolIds) = 1 /\ nodes[n].minipoolIds # Null
        /\ nodes[n].totalFinalizedMinipools = 2
        /\ nodes[n].withdrawableMinipools = 1

----------------------------------------------------------------------------
(* C8: a creation event whose node is not in the store is a no-op: no       *)
(* Minipool is created, no Node changes, no address is tracked, and the     *)
(* handler returns (no read is made that could abort it).                   *)
C8_MissingNodeSkipped ==
    \A node \in NodeIds \ DOMAIN nodes, minipool \in MinipoolIds,
       feeRead \in FeeReads, stakeRead \in StakeReads :
        LET r == handleMinipoolCreated(node, minipool, feeRead, stakeRead) IN
        LeftUntouched(r) /\ r.outcome = "skipped"

\* One minipool is indexed, another address is not, and a creation event for the
\* latter names the unregistered node n0.
C8_Witness ==
    \E m \in DOMAIN minipools, k \in MinipoolIds \ DOMAIN minipools :
        /\ FullyCreated(m)
        /\ "n0" \notin DOMAIN nodes
        /\ \E f \in Fees, s \in StakeValues :
               handleMinipoolCreated("n0", k, f, s)
                   = Result(minipools, nodes, tracked, "skipped")

----------------------------------------------------------------------------
(* C9: every handler run that passes its checks and in which the reads      *)
(* answer runs to its end, and the node it saves then holds in              *)
(* effectiveRPLStaked, minimumEffectiveRPL and maximumEffectiveRPL the      *)
(* three values the stake reads answered in that run, whatever it held      *)
(* before.                                                                  *)
HoldsStake(node, stakeRead) ==
    /\ node.effectiveRPLStaked = stakeRead.effective
    /\ node.minimumEffectiveRPL = stakeRead.minimum
    /\ node.maximumEffectiveRPL = stakeRead.maximum

EndsWithStake(r, node, stakeRead) == r.outcome = "done" /\ HoldsStake(r.nodes[node], stakeRead)

----------------------------------------------------------------------------
(* C10 as claimed: once destroyedBlockTime or finalizedBlockTime of a       *)
(* minipool is not 0, no later event changes it.                            *)
C10_BlockTimesSetOnce ==
    [][\A m \in DOMAIN minipools :
         /\ minipools[m].destroyedBlockTime # 0
                => minipools'[m].destroyedBlockTime = minipools[m].destroyedBlockTime
         /\ minipools[m].finalizedBlockTime # 0
                => minipools'[m].finalizedBlockTime = minipools[m].finalizedBlockTime]_vars

(* C10 as amended: destroyedBlockTime of an indexed minipool m changes only *)
(* in the destruction handler, finalizedBlockTime only in the finalisation  *)
(* handler: every destruction event for m that passes the two existence     *)
(* checks writes its block timestamp (overwriting an earlier one), every    *)
(* finalisation call from m writes its own; all other events leave both     *)
(* fields as they are, and a field that is not 0 never becomes 0 again.     *)
C10_BlockTimesFollowLastEvent ==
    /\ \A node \in NodeIds, minipool \in MinipoolIds, feeRead \in FeeReads, stakeRead \in StakeReads :
           LET after == handleMinipoolCreated(node, minipool, feeRead, stakeRead).minipools IN
           \A m \in DOMAIN minipools :
               /\ after[m].destroyedBlockTime = minipools[m].destroyedBlockTime
               /\ after[m].finalizedBlockTime = minipools[m].finalizedBlockTime
    /\ \A node \in NodeIds, minipool \in MinipoolIds, timestamp \in Times, stakeRead \in StakeReads :
           LET after == handleMinipoolDestroyed(node, minipool, timestamp, stakeRead).minipools IN
           \A m \in DOMAIN minipools :
               /\ after[m].destroyedBlockTime =
                      IF minipool = m /\ node \in DOMAIN nodes THEN timestamp
                      ELSE minipools[m].destroyedBlockTime
               /\ after[m].finalizedBlockTime = minipools[m].finalizedBlockTime
               /\ minipools[m].destroyedBlockTime # 0 => after[m].destroyedBlockTime # 0
    /\ \A from \in MinipoolIds, timestamp \in Times, stakeRead \in StakeReads :
           LET after == handleIncrementNodeFinalisedMinipoolCount(from, timestamp, stakeRead).minipools IN
           \A m \in DOMAIN minipools :
               /\ after[m].finalizedBlockTime =
                      IF from = m THEN timestamp ELSE minipools[m].finalizedBlockTime
               /\ after[m].destroyedBlockTime = minipools[m].destroyedBlockTime
               /\ minipools[m].finalizedBlockTime # 0 => after[m].finalizedBlockTime # 0

\* A minipool destroyed at time 1 and finalised at time 2, for which a destruction
\* event at time 2 and a finalisation call at time 1 overwrite both.
C10_Witness ==
    \E m \in DOMAIN minipools : \E s \in StakeValues :
        /\ minipools[m].destroyedBlockTime = 1
        /\ minipools[m].finalizedBlockTime = 2
        /\ handleMinipoolDestroyed(minipools[m].node, m, 2, s)
               .minipools[m].destroyedBlockTime = 2
        /\ handleIncrementNodeFinalisedMinipoolCount(m, 1, s)
               .minipools[m].finalizedBlockTime = 1

----------------------------------------------------------------------------
(* C11: the fee of a Minipool is the network fee read in the creation       *)
(* handler that indexed it (also when that handler is aborted by a stake    *)
(* read after the Minipool was saved), and no event handled afterwards,     *)
(* creation, destruction or finalisation, changes the fee of a Minipool of  *)
(* the store.                                                               *)
FeeIsFeeRead ==
    \A node \in NodeIds, minipool \in MinipoolIds, feeRead \in Fees, stakeRead \in StakeReads :
        passesCreatedChecks(node, minipool) =>
            \A r \in {handleMinipoolCreated(node, minipool, feeRead, stakeRead)} :
                /\ minipool \in DOMAIN r.minipools
                /\ r.minipools[minipool].fee = feeRead

FeeUnchanged == \A m \in DOMAIN minipools : minipools'[m].fee = minipools[m].fee

C11_FeeFixedAtCreation == []FeeIsFeeRead /\ [][FeeUnchanged]_vars

\* Two minipools of one node, the first indexed with fee 1 and destroyed and
\* finalised since, the second indexed later with fee 2: the first still has fee 1.
C11_Witness ==
    \E n \in DOMAIN nodes :
        /\ nodes[n].minipoolIds # Null /\ Len(nodes[n].minipoolIds) = 2
        /\ \E m, k \in DOMAIN minipools :
               /\ nodes[n].minipoolIds = <<m, k>>
               /\ minipools[m].fee = 1 /\ minipools[k].fee = 2
               /\ minipools[m].destroyedBlockTime # 0
               /\ minipools[m].finalizedBlockTime # 0

----------------------------------------------------------------------------
(* C12: whatever handlers were stopped between their Minipool save and      *)
(* their Node save before (a stake read that reverts stops them there),     *)
(* the next event handled to its end on a node leaves that node consistent: *)
(* its averageFeeForActiveMinipools is the truncated mean of the fees of    *)
(* the active minipools it owns (0 when there is none) and its minipoolIds  *)
(* lists every Minipool it owns; a re-delivery of the interrupted event is  *)
(* one of these events.                                                     *)
ConsistentIn(r, n) ==
    LET owned == {m \in DOMAIN r.minipools : r.minipools[m].node = n}
        active == {m \in owned : IsActive(r.minipools, m)}
        sum == SumOf([m \in active |-> r.minipools[m].fee], active)
        a == r.nodes[n].averageFeeForActiveMinipools
    IN /\ \A m \in owned : Occurrences(r.nodes[n].minipoolIds, m) >= 1
       /\ IF active = {} THEN a = 0
          ELSE IsTruncatedQuotient(a, sum, Cardinality(active))

C12_CrashRecovered ==
    \A stakeRead \in StakeValues :
        /\ \A node \in DOMAIN nodes, minipool \in MinipoolIds, feeRead \in Fees :
               \A r \in {handleMinipoolCreated(node, minipool, feeRead, stakeRead)} :
                   r.outcome = "done" => ConsistentIn(r, node)
        /\ \A minipool \in DOMAIN minipools, timestamp \in Times :
               \A r \in {handleMinipoolDestroyed(minipools[minipool].node, minipool,
                                                 timestamp, stakeRead)} :
                   r.outcome = "done" => ConsistentIn(r, minipools[minipool].node)
        /\ \A from \in DOMAIN minipools, timestamp \in Times :
               \A r \in {handleIncrementNodeFinalisedMinipoolCount(from, timestamp, stakeRead)} :
                   r.outcome = "done" => ConsistentIn(r, minipools[from].node)

----------------------------------------------------------------------------
----------------------------------------------------------------------------
(* C15: in every reachable state withdrawableMinipools of every node is     *)
(* max(0, totalFinalizedMinipools - 1) (both are 0 at the start);           *)
(* totalFinalizedMinipools never decreases: creation and destruction events *)
(* leave it as it is on every node, and a finalisation call handled to its  *)
(* end adds exactly 1 to it on the calling minipool's node and nothing on   *)
(* any other node (a call that is skipped or aborted adds nothing).         *)
TotalsOf(ns) == [n \in DOMAIN ns |-> ns[n].totalFinalizedMinipools]

C15_WithdrawableFollowsTotal ==
    /\ \A n \in DOMAIN nodes :
           nodes[n].withdrawableMinipools =
               IF nodes[n].totalFinalizedMinipools - 1 < 0 THEN 0
               ELSE nodes[n].totalFinalizedMinipools - 1
    /\ \A node \in NodeIds, minipool \in MinipoolIds, feeRead \in FeeReads, stakeRead \in StakeReads :
           TotalsOf(handleMinipoolCreated(node, minipool, feeRead, stakeRead).nodes)
               = TotalsOf(nodes)
    /\ \A node \in NodeIds, minipool \in MinipoolIds, timestamp \in Times, stakeRead \in StakeReads :
           TotalsOf(handleMinipoolDestroyed(node, minipool, timestamp, stakeRead).nodes)
               = TotalsOf(nodes)
    /\ \A from \in MinipoolIds, timestamp \in Times, stakeRead \in StakeReads :
           \A r \in {handleIncrementNodeFinalisedMinipoolCount(from, timestamp, stakeRead)} :
               TotalsOf(r.nodes) =
                   IF r.outcome = "done"
                   THEN [TotalsOf(nodes) EXCEPT ![minipools[from].node] = @ + 1]
                   ELSE TotalsOf(nodes)

\* One node after a single finalisation call (1 finalised, 0 withdrawable), the other
\* after two (2 finalised, 1 withdrawable), and a third call would make it 3.
C15_Witness ==
    \E n, k \in DOMAIN nodes : \E m \in DOMAIN minipools :
        /\ nodes[n].totalFinalizedMinipools = 1 /\ nodes[n].withdrawableMinipools = 0
        /\ nodes[k].totalFinalizedMinipools = 2 /\ nodes[k].withdrawableMinipools = 1
        /\ minipools[m].node = k /\ minipools[m].finalizedBlockTime # 0
        /\ \E s \in StakeValues :
               handleIncrementNodeFinalisedMinipoolCount(m, 1, s)
                   .nodes[k].totalFinalizedMinipools = 3

----------------------------------------------------------------------------
(* C16: a minipool that is not active (destroyed or finalised) is not       *)
(* active after any later event; the average a handler stores on a node is  *)
(* the truncated mean over the minipools of the node's minipoolIds that are *)
(* active after the event, so the fee of one that is not active is not in   *)
(* it again; and a destroyed minipool can still be finalised, a finalised   *)
(* one still destroyed: both block times are then set.                      *)
StaysInactive ==
    \A m \in DOMAIN minipools :
        ~IsActive(minipools, m) => m \in DOMAIN minipools' /\ ~IsActive(minipools', m)

\* The average stored on node n in r is the mean over n's listed minipools active in r.
AverageOverListedActive(r, n) ==
    LET ids == r.nodes[n].minipoolIds
        listed == IF ids = Null THEN {} ELSE {ids[i] : i \in 1..Len(ids)}
        active == {m \in listed : IsActive(r.minipools, m)}
        sum == SumOf([m \in active |-> r.minipools[m].fee], active)
        a == r.nodes[n].averageFeeForActiveMinipools
    IN IF active = {} THEN a = 0 ELSE IsTruncatedQuotient(a, sum, Cardinality(active))

InactiveFeeStaysOut ==
    \A stakeRead \in StakeValues :
        /\ \A node \in DOMAIN nodes, minipool \in MinipoolIds, feeRead \in Fees :
               \A r \in {handleMinipoolCreated(node, minipool, feeRead, stakeRead)} :
                   r.outcome = "done" => AverageOverListedActive(r, node)
        /\ \A node \in DOMAIN nodes, minipool \in DOMAIN minipools, timestamp \in Times :
               \A r \in {handleMinipoolDestroyed(node, minipool, timestamp, stakeRead)} :
                   r.outcome = "done" /\ AverageOverListedActive(r, node)
        /\ \A from \in DOMAIN minipools, timestamp \in Times :
               \A r \in {handleIncrementNodeFinalisedMinipoolCount(from, timestamp, stakeRead)} :
                   r.outcome = "done" /\ AverageOverListedActive(r, minipools[from].node)

BothMayApply ==
    \A m \in DOMAIN minipools, timestamp \in Times, stakeRead \in StakeReads :
        /\ minipools[m].destroyedBlockTime # 0 /\ minipools[m].finalizedBlockTime = 0 =>
               \A r \in {handleIncrementNodeFinalisedMinipoolCount(m, timestamp, stakeRead)} :
                   /\ r.minipools[m].destroyedBlockTime = minipools[m].destroyedBlockTime
                   /\ r.minipools[m].finalizedBlockTime = timestamp
        /\ minipools[m].finalizedBlockTime # 0 /\ minipools[m].destroyedBlockTime = 0 =>
               \A node \in DOMAIN nodes :
                   \A r \in {handleMinipoolDestroyed(node, m, timestamp, stakeRead)} :
                       /\ r.minipools[m].finalizedBlockTime = minipools[m].finalizedBlockTime
                       /\ r.minipools[m].destroyedBlockTime = timestamp

C16_InactiveForGood ==
    [](InactiveFeeStaysOut /\ BothMayApply) /\ [][StaysInactive]_vars

\* Two minipools of one node, one destroyed at time 1 and finalised at time 2, the
\* other finalised at time 1 and destroyed at time 2; the node's average is 0.
C16_Witness ==
    \E n \in DOMAIN nodes : \E m, k \in DOMAIN minipools :
        /\ nodes[n].minipoolIds = <<m, k>>
        /\ minipools[m].destroyedBlockTime = 1 /\ minipools[m].finalizedBlockTime = 2
        /\ minipools[k].finalizedBlockTime = 1 /\ minipools[k].destroyedBlockTime = 2
        /\ nodes[n].averageFeeForActiveMinipools = 0

----------------------------------------------------------------------------
(* C17: a destruction event for a minipool that is not indexed, or naming a *)
(* node that is not in the store, and a finalisation call from an address   *)
(* that is not an indexed minipool with a node in the store, return without *)
(* reading or saving anything: Minipools, Nodes (counters included) and     *)
(* tracked addresses are as before, whatever the reads would answer.        *)
C17_MissingEntitySkipped ==
    /\ \A node \in NodeIds, minipool \in MinipoolIds, timestamp \in Times, stakeRead \in StakeReads :
           ~passesDestroyedChecks(node, minipool) =>
               handleMinipoolDestroyed(node, minipool, timestamp, stakeRead)
                   = Result(minipools, nodes, tracked, "skipped")
    /\ \A from \in MinipoolIds, timestamp \in Times, stakeRead \in StakeReads :
           ~passesFinalisedChecks(from) =>
               handleIncrementNodeFinalisedMinipoolCount(from, timestamp, stakeRead)
                   = Result(minipools, nodes, tracked, "skipped")

\* One minipool is indexed and active, another address is not indexed: a destruction
\* event for the indexed one naming the unregistered n0, a destruction event for the
\* other address and a finalisation call from it are all skipped.
C17_Witness ==
    \E m \in DOMAIN minipools, k \in MinipoolIds \ DOMAIN minipools :
        /\ FullyCreated(m) /\ IsActive(minipools, m)
        /\ \E s \in StakeReads :
               /\ readFails(s)
               /\ handleMinipoolDestroyed("n0", m, 1, s).outcome = "skipped"
               /\ handleMinipoolDestroyed(minipools[m].node, k, 1, s).outcome = "skipped"
               /\ handleIncrementNodeFinalisedMinipoolCount(k, 1, s).outcome = "skipped"

----------------------------------------------------------------------------
(* C18: on every step the minipoolIds of every node before the step is a    *)
(* prefix of its minipoolIds after it (a list never set counts as empty); a *)
(* creation handled to its end leaves its node's list as it was with the    *)
(* new id appended at the end, and no other list changed; destruction and   *)
(* finalisation leave every list exactly as it is.                          *)
ListOf(ids) == IF ids = Null THEN <<>> ELSE ids

IsPrefix(p, q) == Len(p) <= Len(q) /\ SubSeq(q, 1, Len(p)) = p

IdsOf(ns) == [n \in DOMAIN ns |-> ns[n].minipoolIds]

ListsOnlyGrow ==
    \A n \in DOMAIN nodes :
        n \in DOMAIN nodes'
            /\ IsPrefix(ListOf(nodes[n].minipoolIds), ListOf(nodes'[n].minipoolIds))

CreationAppends ==
    \A node \in NodeIds, minipool \in MinipoolIds, feeRead \in FeeReads, stakeRead \in StakeReads :
        \A r \in {handleMinipoolCreated(node, minipool, feeRead, stakeRead)} :
            IdsOf(r.nodes) =
                IF r.outcome = "done"
                THEN [IdsOf(nodes) EXCEPT ![node] = Append(ListOf(@), minipool)]
                ELSE IdsOf(nodes)

OthersKeepLists ==
    /\ \A node \in NodeIds, minipool \in MinipoolIds, timestamp \in Times, stakeRead \in StakeReads :
           IdsOf(handleMinipoolDestroyed(node, minipool, timestamp, stakeRead).nodes)
               = IdsOf(nodes)
    /\ \A from \in MinipoolIds, timestamp \in Times, stakeRead \in StakeReads :
           IdsOf(handleIncrementNodeFinalisedMinipoolCount(from, timestamp, stakeRead).nodes)
               = IdsOf(nodes)

C18_MinipoolIdsAppendOnly ==
    [](CreationAppends /\ OthersKeepLists) /\ [][ListsOnlyGrow]_vars

\* A node whose minipools were created in the order m2, m1 and whose first minipool
\* was destroyed and finalised since: its list is still <<m2, m1>>.
C18_Witness ==
    \E n \in DOMAIN nodes :
        /\ nodes[n].minipoolIds = <<"m2", "m1">>
        /\ minipools["m2"].destroyedBlockTime # 0
        /\ minipools["m2"].finalizedBlockTime # 0
        /\ nodes[n].totalFinalizedMinipools = 1

----------------------------------------------------------------------------
\* The minipools of store that node n owns and whose finalizedBlockTime is not 0.
FinalisedOf(store, n) ==
    {m \in DOMAIN store : store[m].node = n /\ store[m].finalizedBlockTime # 0}

(* C20 as claimed: in every reachable state totalFinalizedMinipools of each *)
(* node is the number of minipools it owns whose finalizedBlockTime is not  *)
(* 0.                                                                       *)
C20_TotalIsFinalisedOwned ==
    \A n \in DOMAIN nodes :
        nodes[n].totalFinalizedMinipools = Cardinality(FinalisedOf(minipools, n))

(* C20 as amended: totalFinalizedMinipools counts the finalisation calls    *)
(* handled to their end, not the finalised minipools: every call from an    *)
(* indexed minipool adds exactly 1 to its node's counter; a first call adds *)
(* the minipool to the node's finalised minipools, a call from a minipool   *)
(* that is already finalised leaves their number as it is.                  *)
C20_TotalCountsCalls ==
    \A from \in DOMAIN minipools, timestamp \in Times, stakeRead \in StakeValues :
        \A r \in {handleIncrementNodeFinalisedMinipoolCount(from, timestamp, stakeRead)} :
            LET n == minipools[from].node IN
            /\ r.outcome = "done"
            /\ r.nodes[n].totalFinalizedMinipools = nodes[n].totalFinalizedMinipools + 1
            /\ Cardinality(FinalisedOf(r.minipools, n)) =
                   Cardinality(FinalisedOf(minipools, n))
                       + IF minipools[from].finalizedBlockTime = 0 THEN 1 ELSE 0

\* A node that owns a finalised and an active minipool and counts 2: the finalised
\* one called twice.
C20_Witness ==
    \E n \in DOMAIN nodes : \E m, k \in DOMAIN minipools :
        /\ minipools[m].node = n /\ minipools[k].node = n
        /\ minipools[m].finalizedBlockTime # 0
        /\ IsActive(minipools, k)
        /\ nodes[n].totalFinalizedMinipools = 2

----------------------------------------------------------------------------
(* C14: in every handler run the statements are executed in this order:     *)
(* minipool.save(), setEffectiveRPLStaked, the average recomputation,       *)
(* node.save() and, in the creation handler only, rocketMinipoolDelegate    *)
(* .create last; a run that returns at a check executes none of them, a run *)
(* to the end all of them. The stake reads come after the Minipool is in    *)
(* the store, the average is computed from the store that holds the saved   *)
(* Minipool, the Node is saved with that average, and an address is handed  *)
(* to rocketMinipoolDelegate.create once, by the creation that indexed it.  *)
StatementOrder(kind) ==
    IF kind = "created"
    THEN <<"minipool.save", "setEffectiveRPLStaked", "getAverageFeeForActiveMinipools",
           "node.save", "rocketMinipoolDelegate.create">>
    ELSE <<"minipool.save", "setEffectiveRPLStaked", "getAverageFeeForActiveMinipools",
           "node.save">>

\* a is the truncated mean of the fees of the minipools of ids active in store.
IsMeanOfListed(a, store, ids) ==
    LET active == {ids[i] : i \in ActivePositions(store, ids)}
        sum == SumOf([m \in active |-> store[m].fee], active)
    IN IF active = {} THEN a = 0 ELSE IsTruncatedQuotient(a, sum, Cardinality(active))

C14_StepOrder ==
    /\ \A slot \in Slots : \A c \in {running[slot]} \ {Idle} :
         /\ IsPrefix(c.steps, StatementOrder(c.kind))
         /\ c.pc = "done" => c.steps = StatementOrder(c.kind)
         /\ c.pc = "returned" =>
                c.steps = <<>> /\ Store(minipools, nodes, tracked) = round
         /\ Len(c.steps) >= 1 => minipools[c.eventMinipool] = c.minipool
         /\ Len(c.steps) = 1 => nodes = round.nodes
         /\ Len(c.steps) >= 2 => HoldsStake(c.node, c.stakeRead)
         /\ Len(c.steps) >= 3 /\ c.minipoolIds # Null =>
                IsMeanOfListed(c.node.averageFeeForActiveMinipools,
                               minipools, c.minipoolIds)
         /\ Len(c.steps) >= 4 => nodes[c.node.id] = c.node
         /\ \A m \in MinipoolIds :
                tracked[m] = round.tracked[m]
                    + IF c.kind = "created" /\ c.eventMinipool = m /\ c.pc = "done"
                      THEN 1 ELSE 0
    /\ \A m \in MinipoolIds :
         /\ tracked[m] <= 1
         /\ tracked[m] = 1 =>
                /\ m \in DOMAIN minipools
                /\ Occurrences(nodes[minipools[m].node].minipoolIds, m) = 1

\* A creation run to its end on a node that had a minipool before: five statements,
\* two loads in the average loop, the new address tracked once.
C14_Witness ==
    \E c \in {running[1]} \ {Idle} :
        /\ c.kind = "created" /\ c.pc = "done"
        /\ Len(c.steps) = 5
        /\ Len(c.minipoolIds) = 2 /\ c.index = 2
        /\ round.tracked[c.eventMinipool] = 0
        /\ tracked[c.eventMinipool] = 1

----------------------------------------------------------------------------
(* C19: when two handlers run with their steps interleaved, and handlers    *)
(* touching the same Node or Minipool identity are serialized, the store    *)
(* after both is the store that handling the two events one at a time, in   *)
(* one of the two orders, leaves. Without the serialization an update is    *)
(* lost: two creations for the same node whose steps alternate leave only   *)
(* one of the two ids in its minipoolIds, and two finalisation calls for    *)
(* minipools of the same node whose steps alternate add 1, not 2, to its    *)
(* totalFinalizedMinipools; neither store is left by any one-at-a-time      *)
(* order.                                                                   *)
Restarted(c) ==
    Call(c.kind, c.eventNode, c.eventMinipool, c.timestamp, c.feeRead, c.stakeRead)

OneAfterOther(store, a, b) ==
    runToEnd(runToEnd(store, Restarted(a)).store, Restarted(b)).store

SequentialOutcomes(store, a, b) == {OneAfterOther(store, a, b), OneAfterOther(store, b, a)}

\* The store after a and b take their steps in turn, a first, until both are over.
RECURSIVE alternated(_, _, _)
alternated(store, a, b) ==
    IF a.pc \in Terminal /\ b.pc \in Terminal THEN store
    ELSE IF a.pc \in Terminal THEN alternated(store, b, a)
    ELSE LET x == step(store, a) IN alternated(x.store, b, x.call)

SerializedIsSequential ==
    running[1].pc \in Terminal /\ running[2].pc \in Terminal =>
        Store(minipools, nodes, tracked) \in SequentialOutcomes(round, running[1], running[2])

UnserializedLosesUpdate ==
    (\A slot \in Slots : running[slot] = Idle) =>
        \A a, b \in Calls(Fees, StakeValues) :
            /\ ( /\ a.kind = "created" /\ b.kind = "created"
                 /\ a.eventNode = b.eventNode /\ a.eventNode \in DOMAIN round.nodes
                 /\ a.eventMinipool # b.eventMinipool
                 /\ {a.eventMinipool, b.eventMinipool} \cap DOMAIN round.minipools = {} )
               => \A f \in {alternated(round, a, b)} :
                      /\ Occurrences(f.nodes[a.eventNode].minipoolIds, a.eventMinipool)
                           + Occurrences(f.nodes[a.eventNode].minipoolIds, b.eventMinipool)
                           = 1
                      /\ f \notin SequentialOutcomes(round, a, b)
            /\ ( /\ a.kind = "finalised" /\ b.kind = "finalised"
                 /\ {a.eventMinipool, b.eventMinipool} \subseteq DOMAIN round.minipools
                 /\ round.minipools[a.eventMinipool].node
                        = round.minipools[b.eventMinipool].node )
               => \A f \in {alternated(round, a, b)} :
                      LET n == round.minipools[a.eventMinipool].node IN
                      /\ f.nodes[n].totalFinalizedMinipools
                             = round.nodes[n].totalFinalizedMinipools + 1
                      /\ f \notin SequentialOutcomes(round, a, b)

C19_PerNodeSerialization == SerializedIsSequential /\ UnserializedLosesUpdate

\* A finalisation call and a destruction event for minipools of two different nodes,
\* both past their minipool.save() and stake reads, neither Node saved yet.
C19_Witness ==
    /\ running[1] # Idle /\ running[2] # Idle
    /\ {running[1].kind, running[2].kind} = {"finalised", "destroyed"}
    /\ running[1].pc = "saveNode" /\ running[2].pc = "saveNode"
    /\ running[1].node.id # running[2].node.id
    /\ nodes = round.nodes
    /\ minipools # round.minipools

====
